---- MODULE Spec2Model ----
(***************************************************************************)
(* Model of EnhancedMUragSystem (backend/services/rag_system.py): the      *)
(* ask pipeline (retrieval, context check, generation, verification,       *)
(* correction) and the bounded conversation memory, with the chatbot       *)
(* endpoint's clear-history handler (backend/routes/chatbot.py); and the   *)
(* document library of the same class: ingestion of an article into the    *)
(* vector store and the lexical index, and get_recommendations over both   *)
(* and arXiv (specification SpecLibrary).                                  *)
(*                                                                         *)
(* Scores are kept in tenths (0.5 is 5); the composite score is kept in    *)
(* hundredths: 0.2*a + 0.4*b + 0.4*c is 2*a + 4*b + 4*c.                   *)
(***************************************************************************)
EXTENDS Integers, Sequences, FiniteSets, TLC

\* ---------------------------------------------------------------- bounds
\* number of ask calls explored in one behaviour
MaxAsks == 1
\* number of add_document_from_article calls explored in one behaviour
MaxIngests == 1
\* largest n a caller passes to get_recommendations
MaxN == 3
\* number of chatbot requests explored in one behaviour
MaxChats == 2

\* ------------------------------------------------------------- constants
\* conversation_memory[-50:]
MemoryCap == 50
\* conversation_memory[-5:]
MemoryWindow == 5
\* _filtered_search(..., k=5), similarity_search(question, k=5)
SearchK == 5
\* similarity_search(question, k=k*3)
OverFetch == 3
\* the neutral score of an unparsable or failed judge call (0.5)
NeutralScore == 5
\* score >= 0.5 sets is_relevant / is_faithful
PassScore == 5
\* context_verification["score"] <= 0.5 triggers the supplementary search
SupplementScore == 5
\* verification_result[...]["score"] < 0.7 names an issue
IssueScore == 7
\* score = max(0.0, min(score, 1.0))
ScoreMin == 0
ScoreMax == 10
\* final_score = 0.5 when no verification is requested (in hundredths)
DefaultFinalScore == 50
\* weights of the composite score (0.2, 0.4, 0.4), in tenths
WContext == 2
WFaithfulness == 4
WRelevance == 4

\* similarity_search_by_vector(embedding, k=n+5)
ExtraCandidates == 5
\* max_results={n*2}
ArxivOverFetch == 2
\* SOURCE_WEIGHTS = {'local': 1.0, 'arxiv': 0.6}, default 0.5, in tenths
LocalWeight == 10
ArxivWeight == 6
DefaultWeight == 5
\* base_score += 1.0 if result['year'] == current year else 0.8, in tenths
CurrentYearBonus == 10
RecentBonus == 8
\* year >= 2024
RecentYear == 2024
\* semantic_score = similarity * 2.0
SemanticFactor == 2
\* datetime.datetime.now().year
CurrentYear == 2026

NoUser == 0
NoArticle == 0
None == "None"
FallbackAnswer == "Aucune information pertinente trouvee dans les documents."
ErrorAnswer == "Erreur generation reponse"
VerificationErrorText == "Erreur de verification"

\* ---------------------------------------------------------------- inputs
\* the question text takes no part in any decision of ask
Questions == {"q1"}
ArticleIds == {NoArticle, 1}
\* validation_threshold: float = 0.7
DefaultThreshold == 7
\* validation_threshold values a caller supplies, in tenths; the threshold
\* is read only when return_metadata is set
Thresholds == {DefaultThreshold, 10}

\* the chunks a vector store can hold: page_content and metadata
Chunks ==
    { [page_content |-> "c1", type |-> "text", text_content |-> "",
       user_id |-> 1, article_id |-> 1],
      [page_content |-> "c2", type |-> "image", text_content |-> "i2",
       user_id |-> 2, article_id |-> 2] }

\* A judge reply: the text of the reply, and what the pattern
\* \[SCORE:\s*(\d+\.\d+|\d+)\] finds in it: matched says whether the pattern
\* occurs, tenths is the number it captures (the pattern has no sign, so
\* the captured number is never negative).
JudgeReplies ==
    { [text |-> "[SCORE: 0.2] weak",   matched |-> TRUE,  tenths |-> 2],
      [text |-> "[SCORE: 1.5] strong", matched |-> TRUE,  tenths |-> 15],
      [text |-> "no score given",      matched |-> FALSE, tenths |-> 0] }

\* A reply of the generative model is a sequence of segments: a <think> or
\* <reasoning> block, white space, or plain text.
Seg(tag, text) == [tag |-> tag, text |-> text]
DraftReplies ==
    { << Seg("think", "hmm"), Seg("ws", " "), Seg("text", "draft") >>,
      << Seg("think", "hmm"), Seg("ws", " ") >> }
CorrectionReplies ==
    { << Seg("text", "fixed"), Seg("ws", " "), Seg("reasoning", "because") >>,
      << Seg("reasoning", "because") >> }

VARIABLES
    user_id,              \* self.user_id
    vectorstore,          \* the chunks held by self.vectorstore
    conversation_memory,  \* self.conversation_memory
    memory_file,          \* the pickled list in the engine's memory file
    clock,                \* time.time()
    pc,                   \* position inside ask, "idle" between calls
    call,                 \* the locals of the running (or last) ask call
    result,               \* the value built for the caller by the last ask
    trace,                \* what the running (or last) ask call did
    appended,             \* the turns appended since the memory was last empty
    asks,                 \* number of ask calls started
    lexical_index,        \* self.lexical_index, in insertion order
    lexical_file,         \* the pickled dict in the lexical index file
    lib,                  \* the last library call and what it returned
    ingests,              \* number of add_document_from_article calls
    ingested,             \* per article, the last ingestion that returned True
    threads               \* the requests served side by side: position, locals

askvars == << user_id, conversation_memory, memory_file, clock,
              pc, call, result, trace, appended, asks >>
libvars == << lexical_index, lexical_file, lib, ingests, ingested >>
webvars == << threads >>
vars == << user_id, vectorstore, conversation_memory, memory_file, clock,
           pc, call, result, trace, appended, asks,
           lexical_index, lexical_file, lib, ingests, ingested, threads >>

\* ------------------------------------------------------- pure functions
Min(a, b) == IF a < b THEN a ELSE b
Max(a, b) == IF a > b THEN a ELSE b

\* s[-n:]
LastN(s, n) == SubSeq(s, Len(s) - Min(n, Len(s)) + 1, Len(s))
\* s[:n]
FirstN(s, n) == SubSeq(s, 1, Min(n, Len(s)))

Turn(question, answer, timestamp) ==
    [question |-> question, answer |-> answer, timestamp |-> timestamp]

\* the turns a memory file written by earlier runs holds
RECURSIVE StoredTurns(_)
StoredTurns(n) ==
    IF n = 0 THEN << >>
    ELSE Append(StoredTurns(n - 1),
                Turn("q" \o ToString(n), "a" \o ToString(n), n))

\* ------------------------------------------------------------- retrieval
\* what a similarity search (or the MMR retriever) with limit k can return:
\* the min(k, size of the store) best chunks, in the rank order the
\* embedding gives them
Rankings(store, k) ==
    { r \in UNION { [1..n -> store] : n \in {Min(k, Cardinality(store))} } :
        \A i, j \in DOMAIN r : i # j => r[i] # r[j] }

\* search_filters of ask: a set of <<key, value>> pairs
SearchFilters(uid, article_id) ==
    (IF uid # NoUser THEN {<<"user_id", uid>>} ELSE {})
    \cup (IF article_id # NoArticle THEN {<<"article_id", article_id>>} ELSE {})

\* doc.metadata.get(key)
MetadataGet(doc, key) == doc[key]

\* the inner loop of _filtered_search: every filter key matches exactly
MatchesFilters(doc, filters) ==
    \A f \in filters : MetadataGet(doc, f[1]) = f[2]

\* the outer loop of _filtered_search over all_docs, from position i, with
\* the matches collected so far; stops once k matches are collected
RECURSIVE FilterLoop(_, _, _, _, _)
FilterLoop(all_docs, filters, k, i, filtered_docs) ==
    IF i > Len(all_docs) \/ Len(filtered_docs) >= k THEN filtered_docs
    ELSE FilterLoop(all_docs, filters, k, i + 1,
                    IF MatchesFilters(all_docs[i], filters)
                    THEN Append(filtered_docs, all_docs[i])
                    ELSE filtered_docs)

\* return filtered_docs[:k]
FilteredDocs(all_docs, filters, k) ==
    FirstN(FilterLoop(all_docs, filters, k, 1, << >>), k)

\* the context parts ask builds for one retrieved chunk
ContextParts(doc) ==
    IF doc.type = "image"
    THEN << doc.page_content, "[INFORMATION VISUELLE] " \o doc.text_content >>
    ELSE << doc.page_content >>

RECURSIVE BuildContext(_)
BuildContext(docs) ==
    IF docs = << >> THEN << >>
    ELSE ContextParts(Head(docs)) \o BuildContext(Tail(docs))

\* [doc.page_content for doc in additional_docs if doc not in docs]
RECURSIVE AdditionalContext(_, _)
AdditionalContext(additional_docs, docs) ==
    IF additional_docs = << >> THEN << >>
    ELSE (IF \E i \in DOMAIN docs : docs[i] = Head(additional_docs)
          THEN << >> ELSE << Head(additional_docs).page_content >>)
         \o AdditionalContext(Tail(additional_docs), docs)

\* ---------------------------------------------------- conversation memory
\* a memory that is never trimmed
TrimMemoryNever(memory) == memory

\* a trim that keeps the oldest turns
TrimMemoryOldest(memory) ==
    IF Len(memory) > MemoryCap THEN FirstN(memory, MemoryCap) ELSE memory

\* if len(self.conversation_memory) > 50: keep [-50:]
TrimMemory(memory) ==
    IF Len(memory) > MemoryCap THEN LastN(memory, MemoryCap) ELSE memory

\* the list _add_to_conversation_memory leaves in self.conversation_memory
AddToMemory(memory, question, answer, now) ==
    TrimMemory(Append(memory, Turn(question, answer, now)))

\* a window taken from the oldest end of the memory
BuildMemoryContextOldest(memory) ==
    LET recent == FirstN(memory, MemoryWindow)
    IN  [ idx \in 1..Len(recent) |->
            [echange  |-> idx,
             question |-> recent[idx].question,
             answer   |-> recent[idx].answer] ]

\* the entries _build_memory_context numbers and writes into the prompt;
\* the empty sequence stands for the empty string of an empty memory
BuildMemoryContext(memory) ==
    LET recent == LastN(memory, MemoryWindow)
    IN  [ idx \in 1..Len(recent) |->
            [echange  |-> idx,
             question |-> recent[idx].question,
             answer   |-> recent[idx].answer] ]

\* -------------------------------------------------------- model replies
\* re.sub of the <think> and <reasoning> blocks: the segments that remain
RECURSIVE RemoveBlocks(_)
RemoveBlocks(reply) ==
    IF reply = << >> THEN << >>
    ELSE (IF Head(reply).tag \in {"think", "reasoning"}
          THEN << >> ELSE << Head(reply) >>) \o RemoveBlocks(Tail(reply))

\* text.strip(): white space at both ends is dropped
RECURSIVE StripLeft(_)
StripLeft(segs) ==
    IF segs # << >> /\ Head(segs).tag = "ws" THEN StripLeft(Tail(segs))
    ELSE segs

RECURSIVE StripRight(_)
StripRight(segs) ==
    IF segs # << >> /\ segs[Len(segs)].tag = "ws"
    THEN StripRight(SubSeq(segs, 1, Len(segs) - 1))
    ELSE segs

RECURSIVE Joined(_)
Joined(segs) ==
    IF segs = << >> THEN "" ELSE Head(segs).text \o Joined(Tail(segs))

\* _clean_think_blocks
CleanThinkBlocks(reply) == Joined(StripRight(StripLeft(RemoveBlocks(reply))))

\* ---------------------------------------------------------- verification
\* a call of the judge model: it raises, or it answers with a reply
JudgeRaises == [raises |-> TRUE, text |-> "", matched |-> FALSE, tenths |-> 0]
JudgeOutcomes ==
    { [raises |-> FALSE, text |-> r.text, matched |-> r.matched,
       tenths |-> r.tenths] : r \in JudgeReplies } \cup {JudgeRaises}

\* a score that is not clamped
ClampNever(score) == score

\* max(0.0, min(score, 1.0))
Clamp(score) == Max(ScoreMin, Min(score, ScoreMax))

\* a reply without a score counted as the lowest score
ParseScoreZero(reply) ==
    IF reply.matched THEN Clamp(reply.tenths) ELSE ScoreMin

\* the score the three _verify_* functions read from a judge reply
ParseScore(reply) ==
    IF reply.matched THEN Clamp(reply.tenths) ELSE NeutralScore

\* a judge failure counted as a failed check
VerificationStrict(outcome) ==
    IF outcome.raises
    THEN [score |-> ScoreMin, passed |-> FALSE,
          explanation |-> VerificationErrorText]
    ELSE [score |-> ParseScore(outcome),
          passed |-> ParseScore(outcome) >= PassScore,
          explanation |-> outcome.text]

\* the dict a _verify_* function returns; the pass flag is is_relevant for
\* the context and relevance checks and is_faithful for faithfulness
Verification(outcome) ==
    IF outcome.raises
    THEN [score |-> NeutralScore, passed |-> TRUE,
          explanation |-> VerificationErrorText]
    ELSE [score |-> ParseScore(outcome),
          passed |-> ParseScore(outcome) >= PassScore,
          explanation |-> outcome.text]

VerifyContextRelevance(outcome) == Verification(outcome)
VerifyAnswerFaithfulness(outcome) == Verification(outcome)
VerifyAnswerRelevance(outcome) == Verification(outcome)

\* a verification that has not been made
NoVerification == [score |-> 0, passed |-> FALSE, explanation |-> None]

\* final_score, in hundredths
FinalScore(context_v, faithfulness_v, relevance_v) ==
    context_v.score * WContext + faithfulness_v.score * WFaithfulness
    + relevance_v.score * WRelevance

\* a validation against the default threshold, whatever the caller passed
IsValidDefault(final_score, validation_threshold) ==
    final_score >= DefaultThreshold * 10

\* is_valid = final_score >= validation_threshold (threshold in tenths)
IsValid(final_score, validation_threshold) ==
    final_score >= validation_threshold * 10

\* a status that stays at its initial value when the answer is valid
StatusOfGenerated(is_valid) ==
    IF is_valid THEN "generated" ELSE "needs_improvement"

\* status = "validated" if is_valid else "needs_improvement"
StatusOf(is_valid) ==
    IF is_valid THEN "validated" ELSE "needs_improvement"

\* a supplementary search only below the neutral score
NeedsSupplementBelow(score) == score < SupplementScore

\* if context_verification["score"] <= 0.5
NeedsSupplement(score) == score <= SupplementScore

\* the issues _suggest_improved_answer names in its prompt
Issues(details) ==
    (IF details.context_relevance.score < IssueScore
     THEN << "Contexte peu pertinent" >> ELSE << >>)
    \o (IF details.answer_faithfulness.score < IssueScore
        THEN << "Reponse infidele" >> ELSE << >>)
    \o (IF details.answer_relevance.score < IssueScore
        THEN << "Reponse peu pertinente" >> ELSE << >>)

\* an improved answer that is never taken
TruthyNever(text) == FALSE

\* if improved_answer: a non-empty string is truthy
Truthy(text) == text # ""

\* ----------------------------------------------------------------- state
NoDetails ==
    [context_relevance   |-> NoVerification,
     answer_faithfulness |-> NoVerification,
     answer_relevance    |-> NoVerification]

\* the locals of ask before the call has set them
NoCall ==
    [question |-> None, article_id |-> NoArticle, return_metadata |-> FALSE,
     validation_threshold |-> 0, docs |-> << >>, context |-> << >>,
     context_verification |-> NoVerification,
     faithfulness_verification |-> NoVerification,
     relevance_verification |-> NoVerification,
     memory_context |-> << >>, answer |-> "", final_answer |-> "",
     improved_answer |-> "", status |-> None, final_score |-> 0]

\* no value has been returned: returned is "dict" when ask returns the
\* dict and "str" when it returns the answer string only
NoResult ==
    [returned |-> None, answer |-> "", verification_status |-> None,
     has_score |-> FALSE, verification_score |-> 0,
     has_details |-> FALSE, verification_details |-> NoDetails]

\* what a call has done so far
NoTrace ==
    [retrieved |-> FALSE, generation_calls |-> 0, judge_calls |-> 0,
     correction_calls |-> 0, supplementary_searches |-> 0,
     raised |-> {}, issues |-> << >>, context_scores |-> << >>,
     rank_kept |-> TRUE, cleared |-> None,
     entry_memory |-> << >>, entry_file |-> << >>]

\* no library call has been made: failed is the set of places that
\* raised, returned the value handed to the caller
NoLib ==
    [op |-> None, article_id |-> NoArticle, returned |-> FALSE,
     failed |-> {}, n |-> 0, current_filename |-> None, text |-> << >>,
     results |-> << >>, scores |-> << >>, found |-> << >>,
     embedder |-> None]

\* the serial of an ingestion that never happened
NoIngest == -1

\* no request is served beside the call that is modelled
NoThreads == << >>

\* the library of an engine that is only asked questions
LibraryUnused ==
    /\ lexical_index = << >>
    /\ lexical_file = << >>
    /\ lib = NoLib
    /\ ingests = 0
    /\ ingested = << >>

\* lengths of the memory an engine loads when it is constructed
LoadedLengths == {0, MemoryCap - 1, MemoryCap}

\* __init__: the engine of a user (or of no user) over an existing vector
\* store, with the conversation memory loaded from the memory file
Init ==
    /\ user_id \in {NoUser, 2}
    /\ vectorstore \in {{}, Chunks}
    /\ \E n \in LoadedLengths :
          /\ memory_file = StoredTurns(n)
          /\ conversation_memory = StoredTurns(n)
          /\ appended = StoredTurns(n)
          /\ clock = n + 1
    /\ pc = "idle"
    /\ call = NoCall
    /\ result = NoResult
    /\ trace = NoTrace
    /\ asks = 0
    /\ LibraryUnused
    /\ threads = NoThreads

\* _save_conversation_memory: the dump is written, or it fails and the
\* exception is swallowed, leaving the file as it was
SaveOutcomes == {"saved", "failed"}
Saved(memory, outcome) == IF outcome = "saved" THEN memory ELSE memory_file

\* a memory that keeps the turn only when the file was written
AddToConversationMemoryIfSaved(question, answer) ==
    \E outcome \in SaveOutcomes :
        /\ conversation_memory' =
              IF outcome = "saved"
              THEN AddToMemory(conversation_memory, question, answer, clock)
              ELSE conversation_memory
        /\ memory_file' = Saved(conversation_memory', outcome)
        /\ appended' = Append(appended, Turn(question, answer, clock))
        /\ clock' = clock + 1

\* _add_to_conversation_memory(question, answer)
AddToConversationMemory(question, answer) ==
    \E outcome \in SaveOutcomes :
        /\ conversation_memory' =
              AddToMemory(conversation_memory, question, answer, clock)
        /\ memory_file' = Saved(conversation_memory', outcome)
        /\ appended' = Append(appended, Turn(question, answer, clock))
        /\ clock' = clock + 1

\* an except branch that records the failed exchange in the memory
AskErrorRemembers(site) ==
    /\ result' = [NoResult EXCEPT
                    !.returned = IF call.return_metadata THEN "dict" ELSE "str",
                    !.answer = ErrorAnswer,
                    !.verification_status = "error"]
    /\ trace' = [trace EXCEPT !.raised = @ \cup {site}]
    /\ pc' = "idle"
    /\ AddToConversationMemory(call.question, ErrorAnswer)
    /\ UNCHANGED webvars /\ UNCHANGED libvars /\ UNCHANGED << user_id, vectorstore, call, asks >>

\* the except branch of ask: the error dict, nothing else is touched
AskError(site) ==
    /\ result' = [NoResult EXCEPT
                    !.returned = IF call.return_metadata THEN "dict" ELSE "str",
                    !.answer = ErrorAnswer,
                    !.verification_status = "error"]
    /\ trace' = [trace EXCEPT !.raised = @ \cup {site}]
    /\ pc' = "idle"
    /\ UNCHANGED webvars /\ UNCHANGED libvars /\ UNCHANGED << user_id, vectorstore, conversation_memory, memory_file,
                    clock, call, appended, asks >>

\* ask(question, article_id, return_metadata, validation_threshold): entry
AskBegin ==
    /\ pc = "idle"
    /\ asks < MaxAsks
    /\ \E q \in Questions, a \in ArticleIds, m \in BOOLEAN :
          \E t \in (IF m THEN Thresholds ELSE {DefaultThreshold}) :
             call' = [NoCall EXCEPT !.question = q, !.article_id = a,
                                    !.return_metadata = m,
                                    !.validation_threshold = t]
    /\ trace' = [NoTrace EXCEPT !.entry_memory = conversation_memory,
                                !.entry_file = memory_file]
    /\ result' = NoResult
    /\ asks' = asks + 1
    /\ pc' = "retrieve"
    /\ UNCHANGED webvars /\ UNCHANGED libvars /\ UNCHANGED << user_id, vectorstore, conversation_memory, memory_file,
                    clock, appended >>

\* an empty retrieval that is not noticed
NoDocsNever(docs) == FALSE

\* if not docs
NoDocs(docs) == docs = << >>

\* the positions of docs in ranked increase: docs keeps the rank order
InRankOrder(docs, ranked) ==
    \E pos \in [DOMAIN docs -> DOMAIN ranked] :
        /\ \A i \in DOMAIN docs : ranked[pos[i]] = docs[i]
        /\ \A i, j \in DOMAIN docs : i < j => pos[i] < pos[j]

\* ask after the retrieval returned docs: the no_context return when docs
\* is empty, the context otherwise; ranked is the list the similarity
\* search behind docs gave, and the trace notes whether docs kept its order
Retrieved(ranked, docs) ==
    /\ trace' = [trace EXCEPT !.retrieved = TRUE,
                              !.rank_kept = InRankOrder(docs, ranked)]
    /\ UNCHANGED webvars /\ UNCHANGED libvars /\ UNCHANGED << user_id, vectorstore, asks >>
    /\ IF NoDocs(docs)
       THEN /\ AddToConversationMemory(call.question, FallbackAnswer)
            /\ result' = [NoResult EXCEPT
                    !.returned = IF call.return_metadata THEN "dict" ELSE "str",
                    !.answer = FallbackAnswer,
                    !.verification_status = "no_context"]
            /\ call' = [call EXCEPT !.docs = docs, !.status = "no_context",
                                    !.final_answer = FallbackAnswer]
            /\ pc' = "idle"
       ELSE /\ call' = [call EXCEPT !.docs = docs,
                                    !.context = BuildContext(docs)]
            /\ pc' = IF call.return_metadata THEN "verify_context"
                     ELSE "generate"
            /\ UNCHANGED << conversation_memory, memory_file, clock,
                            appended, result >>

\* docs = self.retriever.invoke(question)
RetrieveUnfiltered ==
    /\ pc = "retrieve"
    /\ SearchFilters(user_id, call.article_id) = {}
    /\ \E docs \in Rankings(vectorstore, SearchK) : Retrieved(docs, docs)

\* docs = self._filtered_search(question, search_filters)
RetrieveFiltered ==
    /\ pc = "retrieve"
    /\ SearchFilters(user_id, call.article_id) # {}
    /\ \E all_docs \in Rankings(vectorstore, SearchK * OverFetch) :
          Retrieved(all_docs,
                    FilteredDocs(all_docs,
                                 SearchFilters(user_id, call.article_id),
                                 SearchK))

\* _filtered_search when its similarity search raises: the except branch
\* returns an unfiltered similarity search
RetrieveFallback ==
    /\ pc = "retrieve"
    /\ SearchFilters(user_id, call.article_id) # {}
    /\ \E docs \in Rankings(vectorstore, SearchK) : Retrieved(docs, docs)

\* the retriever, or the search of the except branch, raises
RetrieveRaises ==
    /\ pc = "retrieve"
    /\ AskError("retrieval")

\* the frame of a step that touches only the call, its trace and pc
CallStep ==
    UNCHANGED webvars /\ UNCHANGED libvars /\ UNCHANGED << user_id, vectorstore, conversation_memory, memory_file,
                 clock, result, appended, asks >>

\* one call of the judge model, noted in the trace
Judged(check, outcome) ==
    [trace EXCEPT !.judge_calls = @ + 1,
                  !.raised = IF outcome.raises THEN @ \cup {check} ELSE @,
                  !.context_scores =
                      IF check = "context_relevance"
                      THEN Append(@, VerifyContextRelevance(outcome).score)
                      ELSE @]

\* context_verification = self._verify_context_relevance(question, context)
VerifyContext ==
    /\ pc = "verify_context"
    /\ \E outcome \in JudgeOutcomes :
          /\ call' = [call EXCEPT !.context_verification =
                                      VerifyContextRelevance(outcome)]
          /\ trace' = Judged("context_relevance", outcome)
    /\ pc' = IF NeedsSupplement(call'.context_verification.score)
             THEN "supplement" ELSE "generate"
    /\ CallStep

\* additional_docs = self.vectorstore.similarity_search(question, k=5) and
\* the context extended with the chunks not yet in docs
Supplement ==
    /\ pc = "supplement"
    /\ \E additional_docs \in Rankings(vectorstore, SearchK) :
          LET additional_context ==
                  AdditionalContext(additional_docs, call.docs)
          IN  IF additional_context # << >>
              THEN /\ call' = [call EXCEPT
                                !.context = @ \o additional_context]
                   /\ pc' = "reverify_context"
              ELSE /\ call' = call
                   /\ pc' = "generate"
    /\ trace' = [trace EXCEPT !.supplementary_searches = @ + 1]
    /\ CallStep

\* the supplementary similarity search raises
SupplementRaises ==
    /\ pc = "supplement"
    /\ AskError("supplement")

\* the second _verify_context_relevance, on the extended context
ReverifyContext ==
    /\ pc = "reverify_context"
    /\ \E outcome \in JudgeOutcomes :
          /\ call' = [call EXCEPT !.context_verification =
                                      VerifyContextRelevance(outcome)]
          /\ trace' = Judged("context_relevance", outcome)
    /\ pc' = "generate"
    /\ CallStep

\* memory_context, the prompt, ollama.chat and _clean_think_blocks
Generate ==
    /\ pc = "generate"
    /\ \E reply \in DraftReplies :
          call' = [call EXCEPT
                     !.memory_context = BuildMemoryContext(conversation_memory),
                     !.answer = CleanThinkBlocks(reply),
                     !.final_answer = CleanThinkBlocks(reply),
                     !.status = "generated",
                     !.final_score = DefaultFinalScore]
    /\ trace' = [trace EXCEPT !.generation_calls = @ + 1]
    /\ pc' = IF call.return_metadata THEN "verify_faithfulness" ELSE "finish"
    /\ CallStep

\* ollama.chat raises while generating the draft answer
GenerateRaises ==
    /\ pc = "generate"
    /\ AskError("generation")

\* faithfulness_verification = self._verify_answer_faithfulness(...)
VerifyFaithfulness ==
    /\ pc = "verify_faithfulness"
    /\ \E outcome \in JudgeOutcomes :
          /\ call' = [call EXCEPT !.faithfulness_verification =
                                      VerifyAnswerFaithfulness(outcome)]
          /\ trace' = Judged("answer_faithfulness", outcome)
    /\ pc' = "verify_relevance"
    /\ CallStep

\* relevance_verification, final_score, is_valid and status
RelevanceVerified(outcome) ==
    LET relevance_verification == VerifyAnswerRelevance(outcome)
        final_score == FinalScore(call.context_verification,
                                  call.faithfulness_verification,
                                  relevance_verification)
        is_valid == IsValid(final_score, call.validation_threshold)
    IN  /\ call' = [call EXCEPT
                      !.relevance_verification = relevance_verification,
                      !.final_score = final_score,
                      !.status = StatusOf(is_valid)]
        /\ pc' = IF is_valid THEN "finish" ELSE "correct"
        /\ trace' = Judged("answer_relevance", outcome)

\* the relevance check of ask, with the judge's replies of the model
VerifyRelevance ==
    /\ pc = "verify_relevance"
    /\ \E outcome \in JudgeOutcomes : RelevanceVerified(outcome)
    /\ CallStep

\* verification_result of ask
Details(c) ==
    [context_relevance   |-> c.context_verification,
     answer_faithfulness |-> c.faithfulness_verification,
     answer_relevance    |-> c.relevance_verification]

\* if improved_answer: final_answer = improved_answer; status = "corrected"
Improved(c, improved_answer) ==
    IF Truthy(improved_answer)
    THEN [c EXCEPT !.improved_answer = improved_answer,
                   !.final_answer = improved_answer,
                   !.status = "corrected"]
    ELSE [c EXCEPT !.improved_answer = improved_answer]

\* _suggest_improved_answer returns the cleaned reply of the model
Correct ==
    /\ pc = "correct"
    /\ \E reply \in CorrectionReplies :
          call' = Improved(call, CleanThinkBlocks(reply))
    /\ trace' = [trace EXCEPT !.correction_calls = @ + 1,
                              !.issues = Issues(Details(call))]
    /\ pc' = "finish"
    /\ CallStep

\* _suggest_improved_answer when ollama.chat raises: return answer
CorrectRaises ==
    /\ pc = "correct"
    /\ call' = Improved(call, call.answer)
    /\ trace' = [trace EXCEPT !.correction_calls = @ + 1,
                              !.issues = Issues(Details(call)),
                              !.raised = @ \cup {"correction"}]
    /\ pc' = "finish"
    /\ CallStep

\* a memory that keeps the draft answer
StoredAnswerDraft(c) == c.answer

\* self._add_to_conversation_memory(question, final_answer)
StoredAnswer(c) == c.final_answer

\* the turn is added to the memory and result_dict (or final_answer) returned
Finish ==
    /\ pc = "finish"
    /\ AddToConversationMemory(call.question, StoredAnswer(call))
    /\ result' = [returned |-> IF call.return_metadata THEN "dict" ELSE "str",
                  answer |-> call.final_answer,
                  verification_status |-> call.status,
                  has_score |-> TRUE,
                  verification_score |-> call.final_score,
                  has_details |-> call.return_metadata,
                  verification_details |->
                      IF call.return_metadata THEN Details(call) ELSE NoDetails]
    /\ pc' = "idle"
    /\ UNCHANGED webvars /\ UNCHANGED libvars /\ UNCHANGED << user_id, vectorstore, call, trace, asks >>

\* clear_user_memory
ClearUserMemory ==
    /\ pc = "idle"
    /\ conversation_memory' = << >>
    /\ \E outcome \in SaveOutcomes : memory_file' = Saved(<< >>, outcome)
    /\ appended' = << >>
    /\ call' = NoCall
    /\ result' = NoResult
    /\ trace' = [NoTrace EXCEPT !.cleared = "clear_user_memory"]
    /\ UNCHANGED webvars /\ UNCHANGED libvars /\ UNCHANGED << user_id, vectorstore, clock, pc, asks >>

\* clear_chat_history of the chatbot endpoint: the list is emptied, then
\* rag.save_conversation_memory() raises AttributeError (the method is
\* _save_conversation_memory), which the handler swallows
ClearChatHistory ==
    /\ pc = "idle"
    /\ conversation_memory' = << >>
    /\ appended' = << >>
    /\ call' = NoCall
    /\ result' = NoResult
    /\ trace' = [NoTrace EXCEPT !.cleared = "clear_chat_history"]
    /\ UNCHANGED webvars /\ UNCHANGED libvars /\ UNCHANGED << user_id, vectorstore, memory_file, clock, pc, asks >>

Next ==
    \/ AskBegin
    \/ RetrieveUnfiltered
    \/ RetrieveFiltered
    \/ RetrieveFallback
    \/ RetrieveRaises
    \/ VerifyContext
    \/ Supplement
    \/ SupplementRaises
    \/ ReverifyContext
    \/ Generate
    \/ GenerateRaises
    \/ VerifyFaithfulness
    \/ VerifyRelevance
    \/ Correct
    \/ CorrectRaises
    \/ Finish
    \/ ClearUserMemory
    \/ ClearChatHistory

Spec == Init /\ [][Next]_vars

TypeOK ==
    /\ pc \in {"idle", "retrieve", "verify_context", "supplement",
                "reverify_context", "generate", "verify_faithfulness",
                "verify_relevance", "correct", "finish"}
    /\ asks \in 0..MaxAsks

\* ---------------------------------------------------------------- grading
\* A judge reply for every score of the scale: "[SCORE: 0.g]", or
\* "[SCORE: 1.0]" for the top of the scale
GradedReply(g) ==
    [raises |-> FALSE,
     text |-> IF g = ScoreMax THEN "[SCORE: 1.0]"
              ELSE "[SCORE: 0." \o ToString(g) \o "]",
     matched |-> TRUE, tenths |-> g]

GradedOutcomes == { GradedReply(g) : g \in ScoreMin..ScoreMax }

\* an ask with metadata requested, under any threshold of the scale, that
\* has retrieved the chunks of the store, judged the context and judged the
\* faithfulness of its draft with any two scores
InitGrading ==
    /\ user_id = NoUser
    /\ vectorstore = Chunks
    /\ conversation_memory = << >>
    /\ memory_file = << >>
    /\ appended = << >>
    /\ clock = 1
    /\ pc = "verify_relevance"
    /\ result = NoResult
    /\ asks = 1
    /\ LibraryUnused
    /\ threads = NoThreads
    /\ \E t \in ScoreMin..ScoreMax, a \in GradedOutcomes, b \in GradedOutcomes :
          LET docs == CHOOSE r \in Rankings(Chunks, SearchK) : TRUE
          IN  /\ call = [NoCall EXCEPT
                           !.question = "q1",
                           !.return_metadata = TRUE,
                           !.validation_threshold = t,
                           !.docs = docs,
                           !.context = BuildContext(docs),
                           !.context_verification = VerifyContextRelevance(a),
                           !.faithfulness_verification =
                               VerifyAnswerFaithfulness(b),
                           !.answer = "draft",
                           !.final_answer = "draft",
                           !.status = "generated",
                           !.final_score = DefaultFinalScore]
              /\ trace = [NoTrace EXCEPT
                            !.retrieved = TRUE,
                            !.generation_calls = 1,
                            !.judge_calls = 2,
                            !.context_scores =
                                << VerifyContextRelevance(a).score >>]

\* the relevance check of ask, with a judge's reply of any score
VerifyRelevanceGraded ==
    /\ pc = "verify_relevance"
    /\ \E outcome \in GradedOutcomes : RelevanceVerified(outcome)
    /\ CallStep

NextGrading ==
    \/ VerifyRelevanceGraded
    \/ Correct
    \/ CorrectRaises
    \/ Finish

SpecGrading == InitGrading /\ [][NextGrading]_vars

\* --------------------------------------------------------------- library
\* A text is the sequence of its words, all short enough that [:200],
\* [:1000] and the splitter (chunk_size 1000) leave them whole.
\* An article of the database: file_path is << directory, name >>, the
\* unique name the upload gives the stored file; original_filename is the
\* name the user's file had; pages are the page texts PyPDFLoader extracts
\* and images the text_content of the images found in the file
Articles ==
    { [id |-> 1, user_id |-> 1, title |-> "Graph learning",
       original_filename |-> "paper.pdf",
       file_path |-> << "uploads", "file_a1.pdf" >>,
       pages |-> << << "graph", "neural" >> >>,
       images |-> << << "graph", "figure" >> >>],
      [id |-> 2, user_id |-> 2, title |-> "Vision models",
       original_filename |-> "paper.pdf",
       file_path |-> << "uploads", "file_a2.pdf" >>,
       pages |-> << << "vision", "graph" >> >>,
       images |-> << >>],
      [id |-> 3, user_id |-> 1, title |-> "Speech notes",
       original_filename |-> "notes.pdf",
       file_path |-> << "uploads", "file_a3.pdf" >>,
       pages |-> << << "speech" >> >>,
       images |-> << >>] }

\* Article.query.get(article_id)
ArticleGet(article_id) == CHOOSE a \in Articles : a.id = article_id

\* os.path.basename(path)
Basename(path) == path[Len(path)]

\* " ".join(texts)
RECURSIVE Join(_)
Join(texts) ==
    IF texts = << >> THEN << >> ELSE Head(texts) \o Join(Tail(texts))

\* the chunks add_document_from_article hands to the vector store: one per
\* page and one per image, each with the article's metadata; id is the id
\* the store gives the record
IngestChunks(article, serial) ==
    { [id |-> << serial, i >>,
       page_content |-> article.pages[i],
       type |-> "text",
       source |-> article.file_path,
       article_id |-> article.id,
       user_id |-> article.user_id,
       article_title |-> article.title] : i \in DOMAIN article.pages }
    \cup
    { [id |-> << serial, Len(article.pages) + j >>,
       page_content |-> << "[IMAGE]" >> \o article.images[j],
       type |-> "image",
       source |-> article.file_path,
       article_id |-> article.id,
       user_id |-> article.user_id,
       article_title |-> article.title] : j \in DOMAIN article.images }

\* full_text += f" Image: {img['text_content']}" for every image
RECURSIVE ImageTexts(_)
ImageTexts(images) ==
    IF images = << >> THEN << >>
    ELSE (IF Head(images) # << >> THEN << "Image:" >> \o Head(images)
          ELSE << >>) \o ImageTexts(Tail(images))

\* the value _index_document_for_lexical_search stores under filename;
\* article_id and serial note the ingestion the entry comes from
LexicalEntry(article, filename, serial) ==
    [filename |-> filename,
     content |-> Join(article.pages) \o ImageTexts(article.images),
     chunks |-> article.pages,
     images |-> article.images,
     article_id |-> article.id,
     serial |-> serial]

\* self.lexical_index[filename] = entry: a dict keeps the position of a key
\* it already holds and appends a new key
IndexDocument(index, entry) ==
    IF \E i \in DOMAIN index : index[i].filename = entry.filename
    THEN [i \in DOMAIN index |->
             IF index[i].filename = entry.filename THEN entry ELSE index[i]]
    ELSE Append(index, entry)

\* the library of a new installation, or one that holds article 2 from an
\* earlier run
InitLibrary ==
    /\ user_id = NoUser
    /\ conversation_memory = << >>
    /\ memory_file = << >>
    /\ appended = << >>
    /\ clock = 1
    /\ pc = "idle"
    /\ call = NoCall
    /\ result = NoResult
    /\ trace = NoTrace
    /\ asks = 0
    /\ lib = NoLib
    /\ ingests = 0
    /\ threads = NoThreads
    /\ \E held \in {{}, {ArticleGet(2)}} :
          /\ vectorstore = UNION { IngestChunks(a, 0) : a \in held }
          /\ lexical_index =
                IF held = {} THEN << >>
                ELSE << LexicalEntry(ArticleGet(2),
                                     ArticleGet(2).original_filename, 0) >>
          /\ lexical_file = lexical_index
          /\ ingested = [a \in {x.id : x \in Articles} |->
                            IF a \in {x.id : x \in held} THEN 0
                            ELSE NoIngest]

\* add_document_from_article(article) returns: the call is noted
IngestReturns(article, returned, failed) ==
    /\ lib' = [NoLib EXCEPT !.op = "ingest", !.article_id = article.id,
                            !.returned = returned, !.failed = failed]
    /\ ingests' = ingests + 1
    /\ UNCHANGED webvars /\ UNCHANGED askvars

\* add_document_from_article up to the vector-store write: the file is
\* missing or the loader gives no pages (return False), or the loader, the
\* extraction or add_documents raises (the except branch returns False)
IngestRejected ==
    /\ ingests < MaxIngests
    /\ \E article \in Articles :
       \E site \in {"missing_file", "no_docs", "loader", "add_documents"} :
          IngestReturns(article, FALSE, {site})
    /\ UNCHANGED << vectorstore, lexical_index, lexical_file, ingested >>

\* add_documents succeeds and persist raises: the except branch returns
\* False, the lexical index is not reached
IngestPersistFails ==
    /\ ingests < MaxIngests
    /\ \E article \in Articles :
          /\ vectorstore' =
                vectorstore \cup IngestChunks(article, ingests + 1)
          /\ IngestReturns(article, FALSE, {"persist"})
    /\ UNCHANGED << lexical_index, lexical_file, ingested >>

\* _save_lexical_index: the dump is written, or it fails and the exception
\* is swallowed, leaving the file as it was
SavedIndex(index, outcome) ==
    IF outcome = "saved" THEN index ELSE lexical_file

\* add_document_from_article to its end: the chunks are written, the
\* document is indexed under article.original_filename, the index is saved
\* (or the save fails silently) and the call returns True
IngestIndexed ==
    /\ ingests < MaxIngests
    /\ \E article \in Articles, outcome \in SaveOutcomes :
          /\ vectorstore' =
                vectorstore \cup IngestChunks(article, ingests + 1)
          /\ lexical_index' =
                IndexDocument(lexical_index,
                              LexicalEntry(article, article.original_filename,
                                           ingests + 1))
          /\ lexical_file' = SavedIndex(lexical_index', outcome)
          /\ ingested' = [ingested EXCEPT ![article.id] = ingests + 1]
          /\ IngestReturns(article, TRUE,
                           IF outcome = "failed" THEN {"lexical_save"}
                           ELSE {})

\* __init__ of a new engine over the same files: _load_lexical_index reads
\* the index file, or starts from an empty index when the load fails
Restart ==
    /\ lib.op # None
    /\ \E loaded \in {lexical_file, << >>} : lexical_index' = loaded
    /\ lib' = NoLib
    /\ UNCHANGED << vectorstore, lexical_file, ingests, ingested >>
    /\ UNCHANGED webvars /\ UNCHANGED askvars

\* ------------------------------------------------------- recommendations
\* the texts a caller asks recommendations for: text.lower().split()
Queries == { << "graph" >>, << "speech", "graph" >> }

\* current_filename values a caller passes: none, the stored name of
\* article 2, the name its upload had
ExcludeNames == {None, "file_a2.pdf", "paper.pdf"}

\* what export.arxiv.org answers: the entries of the feed, newest first
ArxivFeed ==
    << [title |-> "Graph survey", summary |-> << "graph", "survey" >>,
        year |-> CurrentYear],
       [title |-> "Graph review", summary |-> << "graph", "review" >>,
        year |-> CurrentYear - 1],
       [title |-> "Old graphs", summary |-> << "graph", "history" >>,
        year |-> RecentYear - 1] >>

\* _search_arxiv either gets the feed, or the model call or the request
\* raises (or the status is not 200) and it returns []
ArxivOutcomes == {"feed", "raises"}

\* the similarity the embedding model gives a snippet, in tenths: the same
\* for every snippet, or high for a snippet that shares a word with the
\* query; "fails" is embed_query raising on the snippet
Embedders == {"uniform", "overlap", "fails"}

\* a result dict; filename is None and year 0 where the dict has no such
\* key; article_id and via note where the result comes from
Rec(title, snippet, source, filename, score, year, article_id, via) ==
    [title |-> title, snippet |-> snippet, source |-> source,
     filename |-> filename, score |-> score, year |-> year,
     article_id |-> article_id, via |-> via]

\* text[:200] + "..."
Snippet(text) == text \o << "..." >>

\* word.lower()
Lower(word) ==
    CASE word = "Image:" -> "image:"
      [] word = "[IMAGE]" -> "[image]"
      [] OTHER -> word

\* keyword in text.lower()
Contains(text, keyword) == \E i \in DOMAIN text : Lower(text[i]) = keyword

\* sum(1 for keyword in keywords if keyword in text.lower())
KeywordScore(keywords, text) ==
    Cardinality({ i \in DOMAIN keywords : Contains(text, keywords[i]) })

\* if current_filename and filename == current_filename: continue
Excluded(filename, current_filename) ==
    current_filename # None /\ filename = current_filename

\* the loop of get_recommendations over chroma_results
RECURSIVE VectorResults(_, _)
VectorResults(chroma_results, current_filename) ==
    IF chroma_results = << >> THEN << >>
    ELSE LET doc == Head(chroma_results)
             filename == Basename(doc.source)
             article == ArticleGet(doc.article_id)
         IN  (IF Excluded(filename, current_filename) THEN << >>
              ELSE << Rec(article.title, Snippet(doc.page_content), "local",
                          filename, 0, 0, doc.article_id, "vector") >>)
             \o VectorResults(Tail(chroma_results), current_filename)

\* the chunk loop of _lexical_search: the first chunk with the best
\* positive score, the empty text when no chunk holds a keyword
RECURSIVE BestChunk(_, _, _, _)
BestChunk(keywords, chunks, best_chunk, best_score) ==
    IF chunks = << >> THEN best_chunk
    ELSE IF KeywordScore(keywords, Head(chunks)) > best_score
         THEN BestChunk(keywords, Tail(chunks), Head(chunks),
                        KeywordScore(keywords, Head(chunks)))
         ELSE BestChunk(keywords, Tail(chunks), best_chunk, best_score)

\* a sort that puts p ahead of the pairs of its own score
InsertAheadOfEqual(sorted, p) ==
    LET ahead == { i \in DOMAIN sorted : sorted[i][2] > p[2] }
        k == IF ahead = {} THEN 0
             ELSE CHOOSE i \in ahead : \A j \in ahead : j <= i
    IN  SubSeq(sorted, 1, k) \o << p >> \o SubSeq(sorted, k + 1, Len(sorted))

\* list.sort(key=score, reverse=True) on << item, score >> pairs: p is put
\* behind every pair whose score is not below its own
InsertByScore(sorted, p) ==
    LET ahead == { i \in DOMAIN sorted : sorted[i][2] >= p[2] }
        k == IF ahead = {} THEN 0
             ELSE CHOOSE i \in ahead : \A j \in ahead : j <= i
    IN  SubSeq(sorted, 1, k) \o << p >> \o SubSeq(sorted, k + 1, Len(sorted))

RECURSIVE SortByScore(_)
SortByScore(pairs) ==
    IF pairs = << >> THEN << >>
    ELSE InsertByScore(SortByScore(SubSeq(pairs, 1, Len(pairs) - 1)),
                       pairs[Len(pairs)])

\* [item[0] for item in pairs]
Items(pairs) == [i \in DOMAIN pairs |-> pairs[i][1]]

\* the entry loop of _lexical_search, in the order of the dict
RECURSIVE LexicalMatches(_, _)
LexicalMatches(index, keywords) ==
    IF index = << >> THEN << >>
    ELSE LET data == Head(index)
             score == KeywordScore(keywords, data.content)
         IN  (IF score > 0
              THEN << Rec("Document: " \o data.filename,
                          Snippet(BestChunk(keywords, data.chunks, << >>, 0)),
                          "local", data.filename, score, 0,
                          data.article_id, "lexical") >>
              ELSE << >>)
             \o LexicalMatches(Tail(index), keywords)

\* _lexical_search(query, n)
LexicalSearch(index, keywords, n) ==
    LET matches == LexicalMatches(index, keywords)
    IN  FirstN(Items(SortByScore([i \in DOMAIN matches |->
                                     << matches[i], matches[i].score >>])),
               n)

\* the loop of get_recommendations over lexical_results
RECURSIVE MergeLexical(_, _, _)
MergeLexical(results, lexical_results, current_filename) ==
    IF lexical_results = << >> THEN results
    ELSE LET item == Head(lexical_results)
         IN  MergeLexical(
                 IF Excluded(item.filename, current_filename)
                    \/ \E i \in DOMAIN results :
                          results[i].filename = item.filename
                 THEN results
                 ELSE Append(results, item),
                 Tail(lexical_results), current_filename)

\* the entry loop of _search_arxiv: recent entries, until n are collected
RECURSIVE ArxivLoop(_, _, _)
ArxivLoop(entries, n, results) ==
    IF entries = << >> \/ Len(results) >= n THEN results
    ELSE ArxivLoop(Tail(entries), n,
                   IF Head(entries).year >= RecentYear
                   THEN Append(results,
                               Rec(Head(entries).title,
                                   Snippet(Head(entries).summary), "arxiv",
                                   None, 0, Head(entries).year, NoArticle,
                                   "arxiv"))
                   ELSE results)

\* _search_arxiv(text, n): the request asks for n*2 entries
SearchArxiv(outcome, n) ==
    IF outcome = "raises" THEN << >>
    ELSE ArxivLoop(FirstN(ArxivFeed, n * ArxivOverFetch), n, << >>)

\* the identifier _rerank_results gives a result
Identifier(item) ==
    IF item.source = "local" /\ item.filename # None
    THEN "local:" \o item.filename
    ELSE item.source \o ":" \o item.title

\* the deduplication loop of _rerank_results
RECURSIVE UniqueResults(_, _)
UniqueResults(results, seen_identifiers) ==
    IF results = << >> THEN << >>
    ELSE IF Identifier(Head(results)) \in seen_identifiers
         THEN UniqueResults(Tail(results), seen_identifiers)
         ELSE << Head(results) >>
              \o UniqueResults(Tail(results),
                               seen_identifiers \cup {Identifier(Head(results))})

\* SOURCE_WEIGHTS.get(result['source'], 0.5)
SourceWeight(source) ==
    CASE source = "local" -> LocalWeight
      [] source = "arxiv" -> ArxivWeight
      [] OTHER -> DefaultWeight

\* a bonus for the arXiv articles of the current year only
RecencyBonusCurrentYear(item) ==
    IF item.source = "arxiv" /\ item.year = CurrentYear
    THEN CurrentYearBonus ELSE 0

\* the bonus for recent arXiv articles
RecencyBonus(item) ==
    IF item.source = "arxiv" /\ item.year >= RecentYear
    THEN (IF item.year = CurrentYear THEN CurrentYearBonus
          ELSE RecentBonus)
    ELSE 0

\* float(util.pytorch_cos_sim(...)) of a snippet and the query, in tenths
Similarity(embedder, keywords, snippet) ==
    IF embedder = "uniform" THEN 5
    ELSE IF \E i \in DOMAIN keywords : Contains(snippet, keywords[i])
         THEN 10 ELSE 0

\* semantic_score: similarity * 2.0, 0.0 when the snippet cannot be embedded
SemanticScore(embedder, keywords, snippet) ==
    IF embedder = "fails" \/ snippet = << >> THEN 0
    ELSE SemanticFactor * Similarity(embedder, keywords, snippet)

\* final_score of a result, in tenths
ResultScore(item, embedder, keywords) ==
    SourceWeight(item.source) + RecencyBonus(item)
        + SemanticScore(embedder, keywords, item.snippet)

\* scored_results of _rerank_results after the sort: the unique results
\* with their final score and the place they were found at
ScoredResults(results, keywords, embedder) ==
    LET unique_results == UniqueResults(results, {})
    IN  SortByScore(
            [i \in DOMAIN unique_results |->
                << unique_results[i],
                   ResultScore(unique_results[i], embedder, keywords), i >>])

\* _rerank_results(results, query_text): outcome names the embedder, or is
\* "raises" when the embedding of the query raises and the except branch
\* returns results as they came
RerankResults(results, keywords, outcome) ==
    IF outcome = "raises" THEN results
    ELSE Items(ScoredResults(results, keywords, outcome))

\* a return that hands over every result
TruncateNever(results, n) == results

\* results[:n] at the return of get_recommendations
Truncate(results, n) == FirstN(results, n)

\* the records of a set that hold the same text, oldest first
RECURSIVE OldestFirst(_)
OldestFirst(records) ==
    IF records = {} THEN << >>
    ELSE LET first == CHOOSE c \in records :
                          \A d \in records : c.id[1] <= d.id[1]
         IN  << first >> \o OldestFirst(records \ {first})

\* the records of the store in the order of a ranking of their texts
RECURSIVE RankedRecords(_, _)
RankedRecords(store, texts) ==
    IF texts = << >> THEN << >>
    ELSE OldestFirst({ c \in store : c.page_content = Head(texts) })
         \o RankedRecords(store, Tail(texts))

\* what similarity_search_by_vector(embedding, k) can return: the k best
\* records in the rank order the embedding gives their texts; records
\* that hold the same text have the same embedding and rank together
VectorRankings(store, k) ==
    LET texts == { c.page_content : c \in store }
    IN  { FirstN(RankedRecords(store, r), k) :
            r \in { t \in [1..Cardinality(texts) -> texts] :
                      \A i, j \in DOMAIN t : i # j => t[i] # t[j] } }

\* get_recommendations(text, n, current_filename) returns: the call is noted
\* with the scores and the places of discovery of the results returned
\* when the reranking ran to its end
RecommendReturns(text, n, current_filename, failed, results, scored, embedder) ==
    /\ lib' = [NoLib EXCEPT !.op = "recommend", !.text = text, !.n = n,
                            !.current_filename = current_filename,
                            !.failed = failed, !.results = results,
                            !.scores = [i \in DOMAIN scored |-> scored[i][2]],
                            !.found = [i \in DOMAIN scored |-> scored[i][3]],
                            !.embedder = embedder]
    /\ UNCHANGED << vectorstore, lexical_index, lexical_file, ingests,
                    ingested >>
    /\ UNCHANGED webvars /\ UNCHANGED askvars

\* get_recommendations when the three searches and the article lookups
\* raise nothing: vector results, lexical results, arXiv results when fewer
\* than n were found, then the reranking and the cut to n. The call
\* changes nothing a later call reads, so one call is followed from each
\* state of the library
Recommend ==
    /\ lib.op # "recommend"
    /\ \E text \in Queries, n \in 0..MaxN, current_filename \in ExcludeNames,
          arxiv \in ArxivOutcomes, rerank \in Embedders \cup {"raises"} :
       \E chroma_results \in VectorRankings(vectorstore,
                                              n + ExtraCandidates) :
          LET vector == VectorResults(chroma_results, current_filename)
              local == MergeLexical(vector,
                                    LexicalSearch(lexical_index, text, n),
                                    current_filename)
              asked == Len(local) < n
              results == IF asked
                         THEN local \o SearchArxiv(arxiv, n - Len(local))
                         ELSE local
          IN  RecommendReturns(
                  text, n, current_filename,
                  (IF asked /\ arxiv = "raises" THEN {"arxiv"} ELSE {})
                  \cup (IF rerank = "raises" THEN {"rerank"} ELSE {}),
                  Truncate(RerankResults(results, text, rerank), n),
                  IF rerank = "raises" THEN << >>
                  ELSE Truncate(ScoredResults(results, text, rerank), n),
                  IF rerank = "raises" THEN None ELSE rerank)

\* get_recommendations when the embedding of the text, the vector search or
\* the lookup of an article raises: the except branch returns []
RecommendFails ==
    /\ lib.op # "recommend"
    /\ \E text \in Queries, n \in 0..MaxN, current_filename \in ExcludeNames,
          site \in {"embed_query", "vector_search", "article_lookup"} :
          /\ (site = "article_lookup") =>
                \E c \in vectorstore :
                   ~ Excluded(Basename(c.source), current_filename)
          /\ RecommendReturns(text, n, current_filename, {site}, << >>,
                              << >>, None)

NextLibrary ==
    \/ IngestRejected
    \/ IngestPersistFails
    \/ IngestIndexed
    \/ Restart
    \/ Recommend
    \/ RecommendFails

SpecLibrary == InitLibrary /\ [][NextLibrary]_vars

\* --------------------------------------------------------------- chatbot
\* POST /ask of the chatbot endpoint: every request, whoever the user, calls
\* ask on the one engine get_rag_system builds, an engine without user_id;
\* the development server of app.run serves requests in threads. The
\* retrieval and the judging of ask touch no state of the engine and are
\* left to Spec: a request here reads the memory for its prompt, gets its
\* answer and goes through _add_to_conversation_memory statement by
\* statement.
Users == {1, 2}
\* the requests the server can serve side by side
Requests == {1, 2}

\* clean_question and the answer of a request of user u
QuestionOf(u) == "question of user " \o ToString(u)
AnswerTo(u) == "answer to user " \o ToString(u)

\* a request slot with no request in it; kept is the value of
\* self.conversation_memory[-50:] before it is assigned
NoRequest ==
    [pc |-> "idle", user |-> NoUser, question |-> None,
     memory_context |-> << >>, answer |-> "", kept |-> << >>]

\* get_rag_system: EnhancedMUragSystem() loads the one memory file
InitChat ==
    /\ user_id = NoUser
    /\ vectorstore = Chunks
    /\ \E n \in {0, MemoryCap} :
          /\ memory_file = StoredTurns(n)
          /\ conversation_memory = StoredTurns(n)
          /\ appended = StoredTurns(n)
          /\ clock = n + 1
    /\ pc = "idle"
    /\ call = NoCall
    /\ result = NoResult
    /\ trace = NoTrace
    /\ asks = 0
    /\ LibraryUnused
    /\ threads = [r \in Requests |-> NoRequest]

\* the frame of a step of a request
ChatStep ==
    /\ UNCHANGED << user_id, vectorstore, pc, call, result, trace >>
    /\ UNCHANGED libvars

\* ask_question: a logged-in user posts a question and rag.ask is entered
ChatBegin(r) ==
    /\ threads[r].pc = "idle"
    /\ asks < MaxChats
    /\ \E u \in Users :
          threads' = [threads EXCEPT
                        ![r] = [NoRequest EXCEPT !.pc = "prompt",
                                                 !.user = u,
                                                 !.question = QuestionOf(u)]]
    /\ asks' = asks + 1
    /\ UNCHANGED << conversation_memory, memory_file, clock, appended >>
    /\ ChatStep

\* memory_context = self._build_memory_context(), then the generation
ChatPrompt(r) ==
    /\ threads[r].pc = "prompt"
    /\ threads' = [threads EXCEPT
                     ![r].memory_context =
                         BuildMemoryContext(conversation_memory),
                     ![r].answer = AnswerTo(threads[r].user),
                     ![r].pc = "append"]
    /\ UNCHANGED << conversation_memory, memory_file, clock, appended, asks >>
    /\ ChatStep

\* self.conversation_memory.append({...})
ChatAppend(r) ==
    /\ threads[r].pc = "append"
    /\ conversation_memory' =
          Append(conversation_memory,
                 Turn(threads[r].question, threads[r].answer, clock))
    /\ appended' =
          Append(appended, Turn(threads[r].question, threads[r].answer, clock))
    /\ clock' = clock + 1
    /\ threads' = [threads EXCEPT ![r].pc = "trim"]
    /\ UNCHANGED << memory_file, asks >>
    /\ ChatStep

\* if len(self.conversation_memory) > 50: the slice [-50:] is taken
ChatTrim(r) ==
    /\ threads[r].pc = "trim"
    /\ threads' =
          IF Len(conversation_memory) > MemoryCap
          THEN [threads EXCEPT
                  ![r].kept = LastN(conversation_memory, MemoryCap),
                  ![r].pc = "assign"]
          ELSE [threads EXCEPT ![r].pc = "save"]
    /\ UNCHANGED << conversation_memory, memory_file, clock, appended, asks >>
    /\ ChatStep

\* self.conversation_memory = <the slice>
ChatAssign(r) ==
    /\ threads[r].pc = "assign"
    /\ conversation_memory' = threads[r].kept
    /\ threads' = [threads EXCEPT ![r].pc = "save"]
    /\ UNCHANGED << memory_file, clock, appended, asks >>
    /\ ChatStep

\* self._save_conversation_memory(), then ask returns
ChatSave(r) ==
    /\ threads[r].pc = "save"
    /\ \E outcome \in SaveOutcomes :
          memory_file' = Saved(conversation_memory, outcome)
    /\ threads' = [threads EXCEPT ![r].pc = "idle"]
    /\ UNCHANGED << conversation_memory, clock, appended, asks >>
    /\ ChatStep

NextChat ==
    \E r \in Requests :
        \/ ChatBegin(r)
        \/ ChatPrompt(r)
        \/ ChatAppend(r)
        \/ ChatTrim(r)
        \/ ChatAssign(r)
        \/ ChatSave(r)

SpecChat == InitChat /\ [][NextChat]_vars

\* ------------------------------------------------- concurrent ingestion
\* Two engines built by create_rag_system over the same files, each
\* ingesting one article with add_document_from_article. An engine keeps
\* its own lexical index, loaded from the index file when it is built; the
\* vector store and the index file are shared.
Engines == {1, 2}

\* an engine that is not built yet; lexical_index is self.lexical_index
NoEngine ==
    [pc |-> "none", article_id |-> NoIngest, lexical_index |-> << >>,
     returned |-> FALSE, failed |-> {}]

\* the files of a new installation, or files that hold article 2
InitIngest ==
    /\ user_id = NoUser
    /\ conversation_memory = << >>
    /\ memory_file = << >>
    /\ appended = << >>
    /\ clock = 1
    /\ pc = "idle"
    /\ call = NoCall
    /\ result = NoResult
    /\ trace = NoTrace
    /\ asks = 0
    /\ lib = NoLib
    /\ ingests = 0
    /\ threads = [e \in Engines |-> NoEngine]
    /\ \E held \in {{}, {ArticleGet(2)}} :
          /\ vectorstore = UNION { IngestChunks(a, 0) : a \in held }
          /\ lexical_file =
                IF held = {} THEN << >>
                ELSE << LexicalEntry(ArticleGet(2),
                                     ArticleGet(2).original_filename, 0) >>
          /\ lexical_index = lexical_file
          /\ ingested = [a \in {x.id : x \in Articles} |->
                            IF a \in {x.id : x \in held} THEN 0
                            ELSE NoIngest]

\* the frame of a step of an engine
EngineStep ==
    /\ UNCHANGED askvars
    /\ UNCHANGED << lexical_index, lib >>

\* __init__: _load_lexical_index reads the index file, or starts from an
\* empty index when the load fails; the engine is then given an article no
\* other engine is ingesting
EngineBuilt(e) ==
    /\ threads[e].pc = "none"
    /\ \E outcome \in {"loaded", "raises"} :
       \E article \in Articles :
          /\ \A o \in Engines : threads[o].article_id # article.id
          /\ threads' = [threads EXCEPT
                           ![e] = [NoEngine EXCEPT
                                     !.pc = "add_documents",
                                     !.article_id = article.id,
                                     !.lexical_index =
                                         IF outcome = "loaded"
                                         THEN lexical_file ELSE << >>,
                                     !.failed =
                                         IF outcome = "loaded" THEN {}
                                         ELSE {"lexical_load"}]]
    /\ ingests' = ingests + 1
    /\ UNCHANGED << vectorstore, lexical_file, ingested >>
    /\ EngineStep

\* add_document_from_article up to the vector-store write: the file is
\* missing, the loader gives no pages or something raises: return False
EngineRejects(e) ==
    /\ threads[e].pc = "add_documents"
    /\ \E site \in {"missing_file", "no_docs", "loader", "add_documents"} :
          threads' = [threads EXCEPT ![e].pc = "returned",
                                     ![e].failed = @ \cup {site}]
    /\ UNCHANGED << vectorstore, lexical_file, ingests, ingested >>
    /\ EngineStep

\* self.vectorstore.add_documents(chunks); self.vectorstore.persist()
EngineAddsDocuments(e) ==
    /\ threads[e].pc = "add_documents"
    /\ vectorstore' =
          vectorstore \cup IngestChunks(ArticleGet(threads[e].article_id), e)
    /\ \E outcome \in {"persisted", "raises"} :
          threads' =
             IF outcome = "persisted"
             THEN [threads EXCEPT ![e].pc = "index"]
             ELSE [threads EXCEPT ![e].pc = "returned",
                                  ![e].failed = @ \cup {"persist"}]
    /\ UNCHANGED << lexical_file, ingests, ingested >>
    /\ EngineStep

\* self._index_document_for_lexical_search(docs, article.original_filename,
\* images, figures_tables): the engine's own index gets the entry
EngineIndexes(e) ==
    /\ threads[e].pc = "index"
    /\ threads' =
          [threads EXCEPT
             ![e].lexical_index =
                 IndexDocument(threads[e].lexical_index,
                     LexicalEntry(ArticleGet(threads[e].article_id),
                         ArticleGet(threads[e].article_id).original_filename,
                         e)),
             ![e].pc = "save"]
    /\ UNCHANGED << vectorstore, lexical_file, ingests, ingested >>
    /\ EngineStep

\* self._save_lexical_index(): pickle.dump(self.lexical_index, f) replaces
\* the file, or fails silently
Dump(e, outcome) ==
    IF outcome = "saved" THEN threads[e].lexical_index ELSE lexical_file

\* self._save_lexical_index() and return True
EngineSaves(e) ==
    /\ threads[e].pc = "save"
    /\ \E outcome \in SaveOutcomes :
          /\ lexical_file' = Dump(e, outcome)
          /\ threads' = [threads EXCEPT
                           ![e].pc = "returned",
                           ![e].returned = TRUE,
                           ![e].failed = IF outcome = "failed"
                                         THEN @ \cup {"lexical_save"}
                                         ELSE @]
    /\ ingested' = [ingested EXCEPT ![threads[e].article_id] = e]
    /\ UNCHANGED << vectorstore, ingests >>
    /\ EngineStep

NextIngest ==
    \E e \in Engines :
        \/ EngineBuilt(e)
        \/ EngineRejects(e)
        \/ EngineAddsDocuments(e)
        \/ EngineIndexes(e)
        \/ EngineSaves(e)

SpecIngest == InitIngest /\ [][NextIngest]_vars

\* ------------------------------------------------------------ properties
\* an ask call has returned and nothing has happened since
Returned == pc = "idle" /\ result.returned # None

\* the call returned with verification requested and a generated draft
Verified ==
    /\ Returned
    /\ call.return_metadata
    /\ result.verification_status \notin {"no_context", "error"}

Checks == {"context_relevance", "answer_faithfulness", "answer_relevance"}
HardFailures == {"retrieval", "supplement", "generation"}

VerificationsOf(c) ==
    {c.context_verification, c.faithfulness_verification,
     c.relevance_verification}

\* C1: when the retrieval (filtered or not) returns no chunk, ask returns at
\* once with status no_context and the fixed fallback answer, and neither
\* the generative model nor the judge has been called in that call.
C1_NoContext ==
    (trace.retrieved /\ call.docs = << >>) =>
        /\ Returned
        /\ result.verification_status = "no_context"
        /\ result.answer = FallbackAnswer
        /\ (result.returned = "dict") = call.return_metadata
        /\ trace.generation_calls = 0
        /\ trace.correction_calls = 0
        /\ trace.judge_calls = 0

\* a filtered search over a store that holds chunks matched none of them
C1_Witness ==
    /\ Returned
    /\ trace.retrieved
    /\ call.docs = << >>
    /\ vectorstore # {}
    /\ result.verification_status = "no_context"

\* C2: the conversation memory never holds more than 50 turns, in any
\* state reached by ask calls and clears.
C2_MemoryBounded == Len(conversation_memory) <= MemoryCap

\* the memory is full after a turn was evicted
C2_Witness ==
    /\ Len(conversation_memory) = MemoryCap
    /\ Len(appended) > MemoryCap

\* C3: the memory is the last min(n, 50) of the n turns appended since it
\* was last empty, each unchanged and in the order of the appends.
C3_Fifo ==
    LET n == Len(appended)
        m == IF n < MemoryCap THEN n ELSE MemoryCap
    IN  /\ Len(conversation_memory) = m
        /\ \A i \in 1..m : conversation_memory[i] = appended[n - m + i]

\* a turn was appended to a full memory and the oldest turn is gone
C3_Witness ==
    /\ Returned
    /\ Len(appended) = MemoryCap + 1
    /\ conversation_memory[1] = appended[2]
    /\ conversation_memory[MemoryCap].question \in Questions

\* C4: the history written into the prompt is the min(5, length) most
\* recent turns of the memory the call found, oldest first and numbered
\* from 1; it never has more than 5 entries and is empty for an empty memory.
C4_HistoryWindow ==
    (trace.generation_calls > 0) =>
        LET memory == trace.entry_memory
            window == call.memory_context
            n == Len(memory)
            k == IF n < MemoryWindow THEN n ELSE MemoryWindow
        IN  /\ Len(window) = k
            /\ Len(window) <= MemoryWindow
            /\ \A i \in 1..k :
                  /\ window[i].echange = i
                  /\ window[i].question = memory[n - k + i].question
                  /\ window[i].answer = memory[n - k + i].answer

\* a prompt built over a memory longer than the window
C4_Witness ==
    /\ trace.generation_calls > 0
    /\ Len(trace.entry_memory) > MemoryWindow
    /\ Len(call.memory_context) = MemoryWindow
    /\ call.memory_context[1].question # call.memory_context[2].question

\* C5: whatever the judge replies (a score in range, out of range, or no
\* score) or if it raises, each component score is in [0,1] and the
\* composite score of the call and of the returned dict is in [0,1].
C5_ScoresInRange ==
    /\ \A v \in VerificationsOf(call) :
          v.score >= ScoreMin /\ v.score <= ScoreMax
    /\ call.final_score >= 0 /\ call.final_score <= 100
    /\ result.verification_score >= 0 /\ result.verification_score <= 100
    /\ Verified =>
          result.verification_score =
              2 * result.verification_details.context_relevance.score
              + 4 * result.verification_details.answer_faithfulness.score
              + 4 * result.verification_details.answer_relevance.score

\* a verified answer whose judge replies were out of range, unparsable and
\* in range
C5_Witness ==
    /\ Verified
    /\ result.verification_details.context_relevance.explanation
          = "[SCORE: 1.5] strong"
    /\ result.verification_details.answer_faithfulness.explanation
          = "no score given"
    /\ result.verification_details.answer_relevance.explanation
          = "[SCORE: 0.2] weak"

\* C6: with verification requested and a generated draft, the status is
\* validated exactly when the composite score reaches the threshold of the
\* caller; the validated answer is the draft and no correction was made.
C6_Validated ==
    Verified =>
        /\ (result.verification_status = "validated")
             = (result.verification_score >= call.validation_threshold * 10)
        /\ (result.verification_status = "validated") =>
             /\ result.answer = call.answer
             /\ trace.correction_calls = 0

\* a draft validated with a composite score equal to the threshold
C6_Witness ==
    /\ Verified
    /\ result.verification_status = "validated"
    /\ result.verification_score = call.validation_threshold * 10
    /\ result.answer = "draft"

\* C7: when the correction pass raises, ask returns the draft answer with
\* status needs_improvement.
C7_CorrectionFailure ==
    (Returned /\ "correction" \in trace.raised) =>
        /\ result.verification_status = "needs_improvement"
        /\ result.answer = call.answer

\* C8 as stated: below the threshold the correction pass runs exactly once
\* and, when it does not raise, its text is the returned answer and the
\* status is corrected.
C8_CorrectionReplaces ==
    (Verified /\ result.verification_score < call.validation_threshold * 10) =>
        /\ trace.correction_calls = 1
        /\ ("correction" \notin trace.raised) =>
             /\ result.answer = call.improved_answer
             /\ result.verification_status = "corrected"

\* C8 amended: below the threshold the correction pass runs exactly once;
\* when it does not raise and its cleaned text is not empty, that text is
\* the returned answer and the status is corrected; when its cleaned text
\* is empty the draft is returned with status needs_improvement.
C8_CorrectionReplacesNonEmpty ==
    (Verified /\ result.verification_score < call.validation_threshold * 10) =>
        /\ trace.correction_calls = 1
        /\ ("correction" \notin trace.raised /\ call.improved_answer # "") =>
             /\ result.answer = call.improved_answer
             /\ result.verification_status = "corrected"
        /\ ("correction" \notin trace.raised /\ call.improved_answer = "") =>
             /\ result.answer = call.answer
             /\ result.verification_status = "needs_improvement"

\* a draft below the threshold replaced by the text of the correction pass
C8_Witness ==
    /\ Verified
    /\ result.verification_score < call.validation_threshold * 10
    /\ "correction" \notin trace.raised
    /\ call.answer = "draft"
    /\ result.answer = "fixed"
    /\ result.verification_status = "corrected"

C10_GenerationFailure ==
    (pc = "idle" /\ "generation" \in trace.raised) =>
        /\ result.verification_status = "error"
        /\ conversation_memory = trace.entry_memory
        /\ memory_file = trace.entry_file

\* the generation raised in a call that found a non-empty memory
C10_Witness ==
    /\ Returned
    /\ "generation" \in trace.raised
    /\ trace.judge_calls > 0
    /\ Len(trace.entry_memory) = MemoryCap

TerminalStatuses ==
    {"validated", "corrected", "needs_improvement", "no_context", "error"}
AnsweredStatuses == {"validated", "corrected", "needs_improvement"}
UnparsableText == "no score given"

\* C11: an ask call that requests the verification metadata returns the
\* dict with a status among validated, corrected, needs_improvement,
\* no_context and error; the initial status generated is never returned.
C11_TerminalStatus ==
    (Returned /\ call.return_metadata) =>
        /\ result.returned = "dict"
        /\ result.verification_status \in TerminalStatuses
        /\ result.verification_status # "generated"

\* a verified call that ends with its draft kept and not validated
C11_Witness ==
    /\ Returned
    /\ call.return_metadata
    /\ trace.generation_calls = 1
    /\ result.verification_status = "needs_improvement"

\* C12: a judge reply without a parsable score gives the check the score
\* 0.5 with its pass flag set, and does not end the call with an error:
\* after an unparsable faithfulness or relevance reply the status is not
\* error, and after an unparsable context reply it is error only if the
\* supplementary search or the generation raised afterwards.
C12_UnparsableIsNeutral ==
    /\ \A v \in VerificationsOf(call) :
          (v.explanation = UnparsableText) =>
              (v.score = NeutralScore /\ v.passed)
    /\ (Returned /\ UnparsableText
            \in {call.faithfulness_verification.explanation,
                 call.relevance_verification.explanation}) =>
          result.verification_status \in AnsweredStatuses
    /\ (Returned /\ call.context_verification.explanation = UnparsableText
                 /\ trace.raised \cap HardFailures = {}) =>
          result.verification_status \in AnsweredStatuses

\* the three checks got no parsable score and the call returned an answer
C12_Witness ==
    /\ Returned
    /\ \A v \in VerificationsOf(call) : v.explanation = UnparsableText
    /\ result.verification_score = DefaultFinalScore
    /\ result.verification_status \in AnsweredStatuses

\* the supplementary searches a call has started, the one that raised too
SupplementsStarted ==
    trace.supplementary_searches
    + (IF "supplement" \in trace.raised THEN 1 ELSE 0)

\* C13: in a call with verification requested the supplementary search is
\* started exactly when the first context score is at most 0.5, at most
\* once, and the context is judged at most twice whatever the second score.
C13_SupplementOnce ==
    LET scores == trace.context_scores
    IN  /\ Len(scores) <= 2
        /\ SupplementsStarted <= 1
        /\ (SupplementsStarted = 1) =>
              (call.return_metadata /\ scores # << >>
                 /\ scores[1] <= SupplementScore)
        /\ (scores # << >> /\ scores[1] <= SupplementScore
               /\ pc # "supplement") => (SupplementsStarted = 1)
        /\ (Len(scores) = 2) => (SupplementsStarted = 1)
        /\ (~ call.return_metadata) =>
              (scores = << >> /\ SupplementsStarted = 0)

\* the second context score is still low and the call went on to return
C13_Witness ==
    /\ Returned
    /\ Len(trace.context_scores) = 2
    /\ trace.context_scores[2] <= SupplementScore
    /\ trace.supplementary_searches = 1
    /\ result.verification_status \in AnsweredStatuses

\* an article holds records in the vector store
HasVectors(article_id) == \E c \in vectorstore : c.article_id = article_id

\* the entries of a lexical index that come from an article
EntriesOf(index, article_id) ==
    { i \in DOMAIN index : index[i].article_id = article_id }

\* C15: when the vector-store write or the persistence of the lexical
\* index fails, the ingest call returns false
C15_IngestFailureReturnsFalse ==
    (lib.op = "ingest" /\ lib.failed \cap {"add_documents", "lexical_save"} # {})
        => (lib.returned = FALSE)

\* C16: when an ingest call has returned, its article has records in the
\* vector store and an entry in the lexical index and in its file, or has
\* none of the three
C16_IngestAllOrNothing ==
    (lib.op = "ingest") =>
        /\ HasVectors(lib.article_id)
              <=> (EntriesOf(lexical_index, lib.article_id) # {})
        /\ (EntriesOf(lexical_index, lib.article_id) # {})
              <=> (EntriesOf(lexical_file, lib.article_id) # {})

\* C17: after any sequence of ingest calls the lexical index holds, for
\* every article whose ingestion returned true, exactly one entry, and it
\* comes from the most recent of these ingestions
C17_OneEntryPerDocument ==
    (lib.op = "ingest") =>
        \A a \in DOMAIN ingested :
            (ingested[a] # NoIngest) =>
                /\ Cardinality(EntriesOf(lexical_index, a)) = 1
                /\ \A i \in EntriesOf(lexical_index, a) :
                      lexical_index[i].serial = ingested[a]

\* the names a document goes by: the name of its stored file and the name
\* its upload had
NamesOf(article_id) ==
    { Basename(ArticleGet(article_id).file_path),
      ArticleGet(article_id).original_filename }

\* C18: a recommendation call that names a document in current_filename
\* returns no result that comes from that document, be it found by the
\* vector search or by the lexical search
C18_ExcludedNeverReturned ==
    (lib.op = "recommend" /\ lib.current_filename # None) =>
        \A i \in DOMAIN lib.results :
            (lib.results[i].article_id # NoArticle) =>
                lib.current_filename \notin NamesOf(lib.results[i].article_id)

\* C19: no two results of a returned recommendation list have the same
\* identifier (source and file name, or source and title), whether the
\* reranking ran to its end or gave up
C19_NoDuplicateIdentifier ==
    (lib.op = "recommend") =>
        \A i, j \in DOMAIN lib.results :
            (i # j) => Identifier(lib.results[i]) # Identifier(lib.results[j])

\* the lookups of get_recommendations that empty the answer when they raise
FatalLookups == {"embed_query", "vector_search", "article_lookup"}

\* C20 as stated: a recommendation call returns at most n results, and
\* returns the empty list when any source lookup (the embedding, the vector
\* search, the article lookup, arXiv) failed
C20_AtMostNAndEmptyOnFailure ==
    (lib.op = "recommend") =>
        /\ Len(lib.results) <= lib.n
        /\ (lib.failed \cap (FatalLookups \cup {"arxiv"}) # {})
              => (lib.results = << >>)

\* C20 amended: a recommendation call returns at most n results; it
\* returns the empty list when the embedding, the vector search or the
\* article lookup raised; when only the arXiv search failed it returns its
\* local results and nothing from arXiv
C20_AtMostNAndEmptyOnLocalFailure ==
    (lib.op = "recommend") =>
        /\ Len(lib.results) <= lib.n
        /\ (lib.failed \cap FatalLookups # {}) => (lib.results = << >>)
        /\ ("arxiv" \in lib.failed) =>
              \A i \in DOMAIN lib.results : lib.results[i].source = "local"

\* a call whose arXiv search failed has returned local results
C20_Witness ==
    /\ lib.op = "recommend"
    /\ "arxiv" \in lib.failed
    /\ lib.results # << >>
    /\ Len(lib.results) < lib.n

\* a recommendation call has returned a list its reranking sorted
Reranked == lib.op = "recommend" /\ lib.embedder # None

\* C21: a reranked recommendation list is in descending order of the
\* final score, and two results of equal score stand in the order in which
\* they were found
C21_DescendingStable ==
    Reranked =>
        /\ Len(lib.scores) = Len(lib.results)
        /\ \A i, j \in DOMAIN lib.results :
              (i < j) =>
                 \/ lib.scores[i] > lib.scores[j]
                 \/ /\ lib.scores[i] = lib.scores[j]
                    /\ lib.found[i] < lib.found[j]

\* a reranked list holds two results of equal score and one of another
C21_Witness ==
    /\ Reranked
    /\ \E i, j \in DOMAIN lib.results :
          i < j /\ lib.scores[i] = lib.scores[j]
    /\ \E i, j \in DOMAIN lib.results :
          i < j /\ lib.scores[i] > lib.scores[j]
          /\ lib.found[i] > lib.found[j]

\* the bonus the sources of C22 give a result: none but for an arXiv
\* result of the current year
BonusCurrentYearOnly(item) ==
    IF item.source = "arxiv" /\ item.year = CurrentYear
    THEN CurrentYearBonus ELSE 0

\* the bonus a result gets: an arXiv result from RecentYear on gets
\* CurrentYearBonus in the current year and RecentBonus in another year
BonusRecent(item) ==
    IF item.source = "arxiv" /\ item.year = CurrentYear THEN CurrentYearBonus
    ELSE IF item.source = "arxiv" /\ item.year >= RecentYear THEN RecentBonus
    ELSE 0

\* the weight of the two sources: local 1.0, arXiv 0.6
BaseWeight(item) == IF item.source = "local" THEN 10 ELSE 6

\* C22 as stated: the final score of a result is its source weight plus
\* the similarity bonus, plus the recency bonus only for an arXiv result of
\* the current year
C22_BonusCurrentYearOnly ==
    Reranked =>
        \A i \in DOMAIN lib.results :
            lib.scores[i] =
                BaseWeight(lib.results[i])
                + SemanticScore(lib.embedder, lib.text, lib.results[i].snippet)
                + BonusCurrentYearOnly(lib.results[i])

\* C22 amended: the recency bonus is 1.0 for an arXiv result of the current
\* year and 0.8 for an arXiv result of another year from 2024 on; local
\* results and older arXiv results score base weight plus similarity bonus
C22_BonusRecent ==
    Reranked =>
        \A i \in DOMAIN lib.results :
            lib.scores[i] =
                BaseWeight(lib.results[i])
                + SemanticScore(lib.embedder, lib.text, lib.results[i].snippet)
                + BonusRecent(lib.results[i])

\* a reranked list holds an arXiv result of last year
C22_Witness ==
    /\ Reranked
    /\ \E i \in DOMAIN lib.results :
          /\ lib.results[i].source = "arxiv"
          /\ lib.results[i].year = CurrentYear - 1

\* C14: a search made under filters (user, article) hands ask only chunks
\* whose metadata equals the filter value on every filter key, at most
\* SearchK of them, in the order the similarity ranking gave them
C14_FilteredSearch ==
    (trace.retrieved /\ SearchFilters(user_id, call.article_id) # {}) =>
        /\ \A i \in DOMAIN call.docs :
              MatchesFilters(call.docs[i],
                             SearchFilters(user_id, call.article_id))
        /\ Len(call.docs) <= SearchK
        /\ trace.rank_kept

\* C24: when a clear (clear_user_memory, or the clear-history handler of
\* the chatbot endpoint) has returned, the memory is empty in the engine
\* and in the memory file, so that an engine constructed next loads an
\* empty history
C24_ClearedEverywhere ==
    (trace.cleared # None) =>
        (conversation_memory = << >> /\ memory_file = << >>)

\* C25: an ask that returns a status other than error has appended one
\* turn to the memory it found: the turn holds the question, the answer
\* text returned (the corrected text when the status is corrected) and the
\* time, and nothing of the verification
C25_OneTurnPerAnswer ==
    (Returned /\ result.verification_status # "error") =>
        /\ conversation_memory =
              TrimMemory(Append(trace.entry_memory,
                                Turn(call.question, result.answer, clock - 1)))
        /\ DOMAIN conversation_memory[Len(conversation_memory)]
              = {"question", "answer", "timestamp"}

\* a corrected answer, other than the draft, has been returned
C25_Witness ==
    /\ Returned
    /\ result.verification_status = "corrected"
    /\ result.answer # call.answer
    /\ conversation_memory[Len(conversation_memory)].answer = result.answer

\* C26: the step of ask that returns a status other than error returns the
\* answer and the status the call had reached before the memory was saved,
\* and leaves the new turn in the memory, whether the save succeeds or fails
C26_SaveFailureHarmless ==
    [][ (pc # "idle" /\ pc' = "idle"
         /\ result'.verification_status # "error") =>
            /\ result'.answer =
                  (IF pc = "finish" THEN call.final_answer ELSE FallbackAnswer)
            /\ result'.verification_status =
                  (IF pc = "finish" THEN call.status ELSE "no_context")
            /\ conversation_memory' =
                  AddToMemory(conversation_memory, call.question,
                              result'.answer, clock) ]_vars

\* an ask has returned an answer although its save of the memory failed
C26_Witness ==
    /\ Returned
    /\ result.verification_status \in {"validated", "corrected"}
    /\ memory_file = trace.entry_file
    /\ memory_file # conversation_memory
    /\ conversation_memory[Len(conversation_memory)].answer = result.answer

\* the context parts the chunks of an owner can give
PartsOwnedBy(uid) ==
    UNION { { ContextParts(c)[i] : i \in DOMAIN ContextParts(c) }
            \cup {c.page_content} : c \in { d \in Chunks : d.user_id = uid } }

\* C30: in an ask of an engine with an owner, every part of the context
\* given to the generative model and to the judge comes from a chunk that
\* carries the owner's user_id, the parts added by the supplementary search
\* and by the fallback of the filtered search included
C30_OwnerOnlyContext ==
    (user_id # NoUser) =>
        \A i \in DOMAIN call.context : call.context[i] \in PartsOwnedBy(user_id)

\* C29: when the correction pass has been invoked, the list of issues
\* handed to it names at least one of the three checks
C29_IssuesNamed ==
    (trace.correction_calls > 0) => (trace.issues # << >>)

\* the questions the users of the chatbot ask
UserQuestions == { QuestionOf(u) : u \in Users }

\* C23: the history replayed into the prompt of a user's request holds no
\* turn of another user, in whatever order the requests of the users are
\* served by the chatbot endpoint
C23_MemoryPerIdentity ==
    \A r \in DOMAIN threads :
        \A i \in DOMAIN threads[r].memory_context :
            (threads[r].memory_context[i].question \in UserQuestions) =>
                (threads[r].memory_context[i].question = threads[r].question)

\* no request is being served
Quiet == \A r \in DOMAIN threads : threads[r].pc = "idle"

\* C27: when the requests have returned, every turn they appended is in
\* the memory in the order of the appends, but for the turns the cap of 50
\* has pushed out
C27_NoLostAppend ==
    (threads # NoThreads /\ Quiet) =>
        (conversation_memory = LastN(appended, MemoryCap))

\* the names the persisted lexical index has entries under
PersistedNames == { lexical_file[i].filename : i \in DOMAIN lexical_file }

\* C28: when two engines have ingested two different documents side by
\* side and both calls have returned true, the persisted lexical index
\* holds an entry for each of the two documents
C28_BothPersisted ==
    (/\ threads # NoThreads
     /\ \A e \in DOMAIN threads :
           /\ "returned" \in DOMAIN threads[e]
           /\ threads[e].pc = "returned"
           /\ threads[e].returned) =>
        \A e \in DOMAIN threads :
            \E i \in DOMAIN lexical_file :
                /\ lexical_file[i].article_id = threads[e].article_id
                /\ lexical_file[i].serial = e

====
